---------------------------- MODULE Spec2Model ----------------------------
(***************************************************************************)
(* A model of rpki-mcp (src/src/main.rs): the startup sequence of main,    *)
(* the endpoint validation of RPKITool::new, the generic fetch-and-decode  *)
(* helper behind the status, validity and roas tools, the serde shapes of  *)
(* the upstream responses, and the local ROA file parser.                  *)
(*                                                                         *)
(* Text that the program inspects or composes (the endpoint, the request   *)
(* URLs, the tool arguments, rendered addresses) is a sequence of Unicode  *)
(* scalar values, the chars of a Rust String.  Text that is only carried   *)
(* or prefixed (JSON string values, error messages, response bodies) is a  *)
(* TLA+ string.                                                            *)
(***************************************************************************)
EXTENDS Integers, Sequences, FiniteSets, TLC

(***************************************************************************)
(* Bounds of the model.                                                    *)
(***************************************************************************)
\* Longest tail appended to an endpoint prefix when enumerating endpoints.
MaxSuffixLen == 1
\* Largest number of worker threads the async runtime is started with.
MaxWorkers == 2

(***************************************************************************)
(* Program constants.                                                      *)
(***************************************************************************)
\* Largest value of the u16 field `serial`.
U16Max == 65535
\* Significand width of the f32 field `last_update_duration`.
F32Bits == 24
\* ErrorCode used when the failure carries no HTTP status.
NoStatus == -1

(***************************************************************************)
(* Text helpers.                                                           *)
(***************************************************************************)
\* The printable ASCII characters in order, U+0020 to U+005F and U+0061 to
\* U+007E (a string of this notation cannot hold U+0060).
Printable20 ==
    <<" ", "!", "\"", "#", "$", "%", "&", "'", "(", ")", "*", "+", ",", "-", ".", "/",
      "0", "1", "2", "3", "4", "5", "6", "7", "8", "9", ":", ";", "<", "=", ">", "?",
      "@", "A", "B", "C", "D", "E", "F", "G", "H", "I", "J", "K", "L", "M", "N", "O",
      "P", "Q", "R", "S", "T", "U", "V", "W", "X", "Y", "Z", "[", "\\", "]", "^", "_">>
Printable61 ==
    <<"a", "b", "c", "d", "e", "f", "g", "h", "i", "j", "k", "l", "m", "n", "o",
      "p", "q", "r", "s", "t", "u", "v", "w", "x", "y", "z", "{", "|", "}", "~">>

\* The scalar value of a printable ASCII character.
Ord(c) ==
    IF \E i \in 1..Len(Printable20) : Printable20[i] = c
    THEN 31 + (CHOOSE i \in 1..Len(Printable20) : Printable20[i] = c)
    ELSE 96 + (CHOOSE i \in 1..Len(Printable61) : Printable61[i] = c)

\* The text of a string literal, given character by character.
Text(s) == [i \in 1..Len(s) |-> Ord(s[i])]

\* str::starts_with
StartsWith(s, p) == Len(s) >= Len(p) /\ SubSeq(s, 1, Len(p)) = p

\* The scalar values with the Unicode property White_Space: U+0009..U+000D,
\* U+0020, U+0085, U+00A0, U+1680, U+2000..U+200A, U+2028, U+2029, U+202F,
\* U+205F and U+3000.
WhiteSpace ==
    (9..13) \cup {32, 133, 160, 5760} \cup (8192..8202)
    \cup {8232, 8233, 8239, 8287, 12288}

\* char::is_whitespace, which str::trim strips by
IsWhitespace(c) == c \in WhiteSpace

\* str::trim().is_empty(): nothing but whitespace
TrimIsEmpty(s) == \A i \in 1..Len(s) : IsWhitespace(s[i])

HttpScheme == Text(<<"h", "t", "t", "p", ":", "/", "/">>)
HttpsScheme == Text(<<"h", "t", "t", "p", "s", ":", "/", "/">>)

\* The digit d of a radix up to sixteen, in lower case.
DigitChar(d) == IF d < 10 THEN Ord("0") + d ELSE Ord("a") + (d - 10)

\* Display of an unsigned integer in the given radix, no leading zeros.
RECURSIVE Digits(_, _)
Digits(n, radix) ==
    IF n < radix THEN <<DigitChar(n)>>
    ELSE Digits(n \div radix, radix) \o <<DigitChar(n % radix)>>


(***************************************************************************)
(* RPKITool::new: the endpoint check.                                      *)
(***************************************************************************)
NewOk(e) == [ok |-> TRUE, endpoint |-> e, err |-> ""]
NewErr(m) == [ok |-> FALSE, endpoint |-> <<>>, err |-> m]

\* New as it would be had the https:// alternative been forgotten.
NewHttpOnly(e) ==
    IF ~StartsWith(e, HttpScheme)
    THEN NewErr("Endpoint must start with http:// or https://")
    ELSE IF TrimIsEmpty(e)
    THEN NewErr("Endpoint cannot be empty")
    ELSE NewOk(e)

New(e) ==
    IF ~StartsWith(e, HttpScheme) /\ ~StartsWith(e, HttpsScheme)
    THEN NewErr("Endpoint must start with http:// or https://")
    ELSE IF TrimIsEmpty(e)
    THEN NewErr("Endpoint cannot be empty")
    ELSE NewOk(e)

(***************************************************************************)
(* JSON values: [k, v] with k the kind.  An object's v is a record, an     *)
(* array's v a sequence.  "garbage" is a body that is not JSON at all.     *)
(***************************************************************************)
Str(s) == [k |-> "str", v |-> s]
Num(n) == [k |-> "num", v |-> n]
Arr(a) == [k |-> "arr", v |-> a]
Obj(r) == [k |-> "obj", v |-> r]
Garbage == [k |-> "garbage", v |-> 0]

(***************************************************************************)
(* Number conversions of the typed shapes.                                 *)
(***************************************************************************)
RECURSIVE Pow2(_)
Pow2(n) == IF n = 0 THEN 1 ELSE 2 * Pow2(n - 1)

RECURSIVE BitLen(_)
BitLen(n) == IF n = 0 THEN 0 ELSE 1 + BitLen(n \div 2)

\* A non-negative integer read as f32 and widened again: round to nearest,
\* ties to even, on a significand of F32Bits bits.
F32Round(n) ==
    IF BitLen(n) <= F32Bits THEN n
    ELSE LET unit == Pow2(BitLen(n) - F32Bits)
             q == n \div unit
             r == n % unit
             up == (2 * r > unit) \/ (2 * r = unit /\ q % 2 = 1)
         IN  (IF up THEN q + 1 ELSE q) * unit

F32(n) == IF n < 0 THEN 0 - F32Round(0 - n) ELSE F32Round(n)

(***************************************************************************)
(* Typed shapes (the serde derives): [k, a].  A struct's a is the sequence *)
(* of its fields under their serialized names, in declaration order; an    *)
(* untagged enum's a is the sequence of its variants, in declaration order.*)
(***************************************************************************)
TString == [k |-> "String", a |-> <<>>]
TU16 == [k |-> "u16", a |-> <<>>]
TI64 == [k |-> "i64", a |-> <<>>]
TF32 == [k |-> "f32", a |-> <<>>]
TVec(t) == [k |-> "Vec", a |-> <<t>>]
TStruct(fields) == [k |-> "struct", a |-> fields]
TUntagged(variants) == [k |-> "untagged", a |-> variants]
Field(n, t) == [n |-> n, t |-> t]

StatusResponseError == TStruct(<<Field("error", TString)>>)

StatusResponseSuccess ==
    TStruct(<<Field("version", TString),
              Field("serial", TU16),
              Field("now", TString),
              Field("lastUpdateStart", TString),
              Field("lastUpdateDone", TString),
              Field("lastUpdateDuration", TF32)>>)

StatusResponse == TUntagged(<<StatusResponseError, StatusResponseSuccess>>)

Vrp ==
    TStruct(<<Field("asn", TString), Field("prefix", TString),
              Field("max_length", TString)>>)

VRPs ==
    TStruct(<<Field("matched", TVec(Vrp)), Field("unmatched_as", TVec(Vrp)),
              Field("unmatched_length", TVec(Vrp))>>)

Validity ==
    TStruct(<<Field("state", TString), Field("description", TString),
              Field("VRPs", VRPs)>>)

Route == TStruct(<<Field("origin_asn", TString), Field("prefix", TString)>>)

ValidatedRoute == TStruct(<<Field("route", Route), Field("validity", Validity)>>)

ValidityResponse ==
    TStruct(<<Field("validated_route", ValidatedRoute),
              Field("generatedTime", TString)>>)

FetchedRoa ==
    TStruct(<<Field("asn", TString), Field("prefix", TString),
              Field("maxLength", TI64), Field("ta", TString)>>)

Metadata == TStruct(<<Field("generated", TI64), Field("generatedTime", TString)>>)

FetchedRoas == TStruct(<<Field("metadata", Metadata), Field("roas", TVec(FetchedRoa))>>)

ParsedRoa ==
    TStruct(<<Field("asn", TString), Field("v4_prefix", TVec(TString)),
              Field("v6_prefix", TVec(TString))>>)

(***************************************************************************)
(* Deserialization of a JSON value into a typed shape.  The typed data is  *)
(* kept in the form serde_json::to_value gives it back: an object holding  *)
(* exactly the shape's fields, numbers converted to the field's type.      *)
(***************************************************************************)
DeOk(v) == [ok |-> TRUE, v |-> v]
DeFail == [ok |-> FALSE, v |-> Garbage]

FieldNames(t) == {t.a[i].n : i \in 1..Len(t.a)}
FieldIndex(t, n) == CHOOSE i \in 1..Len(t.a) : t.a[i].n = n

RECURSIVE Deserialize(_, _)

\* The fields of a struct read one by one, the i-th from from[i]; a field
\* with nothing to read from (from[i] = <<>>) is missing.
FieldsRead(t, from) ==
    [i \in 1..Len(t.a) |->
        IF from[i] = <<>> THEN DeFail ELSE Deserialize(t.a[i].t, from[i][1])]

StructOf(t, parts) ==
    IF \A i \in 1..Len(t.a) : parts[i].ok
    THEN DeOk(Obj([n \in FieldNames(t) |-> parts[FieldIndex(t, n)].v]))
    ELSE DeFail

\* A struct read from a JSON object: every field present and of its type;
\* keys that are not fields of the struct are skipped.
StructFromMap(t, v) ==
    IF v.k # "obj" THEN DeFail
    ELSE StructOf(t, FieldsRead(t, [i \in 1..Len(t.a) |->
                    IF t.a[i].n \in DOMAIN v.v THEN <<v.v[t.a[i].n]>> ELSE <<>>]))

\* A struct read from a JSON array: the fields in declaration order, no
\* element missing and none left over.
StructFromSeq(t, v) ==
    IF v.k # "arr" \/ Len(v.v) # Len(t.a) THEN DeFail
    ELSE StructOf(t, FieldsRead(t, [i \in 1..Len(t.a) |-> <<v.v[i]>>]))

\* An untagged enum: the variants are tried in declaration order and the
\* first that deserializes wins.  A struct variant only reads from an object.
RECURSIVE FirstVariant(_, _, _)
FirstVariant(t, v, i) ==
    IF i > Len(t.a) THEN DeFail
    ELSE LET d == StructFromMap(t.a[i], v) IN
         IF d.ok THEN d ELSE FirstVariant(t, v, i + 1)

VecOf(parts) ==
    IF \A i \in 1..Len(parts) : parts[i].ok
    THEN DeOk(Arr([i \in 1..Len(parts) |-> parts[i].v]))
    ELSE DeFail

Deserialize(t, v) ==
    CASE t.k = "String" -> IF v.k = "str" THEN DeOk(v) ELSE DeFail
      [] t.k = "u16" -> IF v.k = "num" /\ v.v >= 0 /\ v.v <= U16Max
                        THEN DeOk(v) ELSE DeFail
      [] t.k = "i64" -> IF v.k = "num" THEN DeOk(v) ELSE DeFail
      [] t.k = "f32" -> IF v.k = "num" THEN DeOk(Num(F32(v.v))) ELSE DeFail
      [] t.k = "Vec" ->
            IF v.k # "arr" THEN DeFail
            ELSE VecOf([i \in 1..Len(v.v) |-> Deserialize(t.a[1], v.v[i])])
      [] t.k = "struct" ->
            IF v.k = "obj" THEN StructFromMap(t, v) ELSE StructFromSeq(t, v)
      [] t.k = "untagged" -> FirstVariant(t, v, 1)

\* The error of a library call, by what the program uses of it: its Display
\* ({err}), its Debug ({:?}) and, of a reqwest::Error, its status().
LibError(display, debug) == [display |-> display, debug |-> debug, status |-> <<>>]
\* No error: the Ok side of a Result.
NoError == LibError("", "")

\* RPKITool::to_json: serde_json::to_value of typed data.  None of the
\* shapes of this program has a Serialize that can fail.
ToJson(data) == [ok |-> TRUE, v |-> data, err |-> NoError]

(***************************************************************************)
(* Results of a tool call and the error conversions (IntoMcpError).  Each  *)
(* conversion gives the typed error together with the error events it      *)
(* hands to the tracing subscriber.                                        *)
(***************************************************************************)
McpError(code, message) ==
    [t |-> "err", code |-> code, message |-> message, payload |-> Garbage]
Structured(v) == [t |-> "ok", code |-> 0, message |-> "", payload |-> v]

\* A reqwest::Error as this program meets it.  Its status() is Some only for
\* an error made by error_for_status, which the program never calls: the
\* errors of get() and of json() carry none.
ReqwestError(kind) ==
    CASE kind = "request" ->
            LibError("error sending request", "reqwest::Error { kind: Request }")
      [] kind = "body" ->
            LibError("request or response body error", "reqwest::Error { kind: Body }")
      [] kind = "decode" ->
            LibError("error decoding response body", "reqwest::Error { kind: Decode }")

IntoMcpErrorReqwest(err) ==
    [result |-> McpError(IF err.status # <<>> THEN err.status[1] ELSE NoStatus,
                         "Request failed: " \o err.display),
     events |-> <<"Request failed: " \o err.debug>>]

IntoMcpErrorSerde(err) ==
    [result |-> McpError(NoStatus, "Failed to serialize response: " \o err.display),
     events |-> <<"Failed to serialize: " \o err.debug>>]

\* The io::Error conversion as it would be without its tracing::error!.
IntoMcpErrorIoSilent(err) ==
    [result |-> McpError(NoStatus, "Failed to read file: " \o err.display),
     events |-> <<>>]

IntoMcpErrorIo(err) ==
    [result |-> McpError(NoStatus, "Failed to read file: " \o err.display),
     events |-> <<"Failed to read file: " \o err.debug>>]

IntoMcpErrorDecode(err) ==
    [result |-> McpError(NoStatus, "Failed to decode file: " \o err.display),
     events |-> <<"Failed to decode file: " \o err.debug>>]

(***************************************************************************)
(* The outcome of reqwest::get: a transport failure, or a response with a  *)
(* status and a body.  The body may fail to be read; when read it is text  *)
(* whose JSON reading is json (Garbage when the text is not JSON).         *)
(***************************************************************************)
TransportFailure ==
    [transport |-> TRUE, status |-> 0, readable |-> FALSE, text |-> "",
     json |-> Garbage]
Response(status, readable, text, json) ==
    [transport |-> FALSE, status |-> status, readable |-> readable,
     text |-> text, json |-> json]

\* is_success as it would be were redirections taken for successes.
IsSuccessBelow400(status) == status >= 200 /\ status < 400

\* StatusCode::is_success
IsSuccess(status) == status >= 200 /\ status < 300

\* Response::json::<T>
ResponseJson(T, res) ==
    IF ~res.readable THEN [ok |-> FALSE, v |-> Garbage, err |-> ReqwestError("body")]
    ELSE IF res.json.k = "garbage"
    THEN [ok |-> FALSE, v |-> Garbage, err |-> ReqwestError("decode")]
    ELSE LET d == Deserialize(T, res.json) IN
         IF d.ok THEN [ok |-> TRUE, v |-> d.v, err |-> NoError]
         ELSE [ok |-> FALSE, v |-> Garbage, err |-> ReqwestError("decode")]

HttpErrorText(res) == IF res.readable THEN res.text ELSE "Unknown error"

\* RPKITool::fetch_json_response::<T>, from the outcome of its one get().
FetchJsonResponse(T, res) ==
    IF res.transport THEN IntoMcpErrorReqwest(ReqwestError("request"))
    ELSE IF ~IsSuccess(res.status)
    THEN [result |-> McpError(res.status, HttpErrorText(res)),
          events |-> <<"HTTP error " \o ToString(res.status) \o ": "
                        \o HttpErrorText(res)>>]
    ELSE LET data == ResponseJson(T, res) IN
         IF ~data.ok THEN IntoMcpErrorReqwest(data.err)
         ELSE LET json_value == ToJson(data.v) IN
              IF ~json_value.ok THEN IntoMcpErrorSerde(json_value.err)
              ELSE [result |-> Structured(json_value.v), events |-> <<>>]

(***************************************************************************)
(* Request URLs.                                                           *)
(***************************************************************************)
StatusPath == Text(<<"/", "a", "p", "i", "/", "v", "1", "/", "s", "t", "a", "t", "u", "s">>)
ValidityPath ==
    Text(<<"/", "a", "p", "i", "/", "v", "1", "/", "v", "a", "l", "i", "d", "i", "t", "y", "/">>)
RoasPath ==
    Text(<<"/", "j", "s", "o", "n", "?", "s", "e", "l", "e", "c", "t", "-", "a", "s", "n", "=">>)
Slash == Text(<<"/">>)

\* The validity URL as it would be with its two arguments exchanged.
ValidityUrlSwapped(ep, asn, prefix) == ep \o ValidityPath \o prefix \o Slash \o asn

StatusUrl(ep) == ep \o StatusPath
ValidityUrl(ep, asn, prefix) == ep \o ValidityPath \o asn \o Slash \o prefix
RoasUrl(ep, asn) == ep \o RoasPath \o asn

(***************************************************************************)
(* parse_roa_file.  A file is [readable, bytes]; bytes are described by    *)
(* what Roa::decode makes of them: [valid, as_id, v4, v6], each address    *)
(* block [addr, len, max] with addr the octets (v4) or the eight 16-bit    *)
(* segments (v6) of the prefix's address.                                  *)
(***************************************************************************)
AsPrefix == Text(<<"A", "S">>)
Dot == Text(<<".">>)
Colon == Text(<<":">>)
MappedPrefix == Text(<<":", ":", "f", "f", "f", "f", ":">>)

\* Asn's Display
AsnToString(n) == AsPrefix \o Digits(n, 10)

\* Ipv4Addr's Display
Ipv4ToString(a) ==
    Digits(a[1], 10) \o Dot \o Digits(a[2], 10) \o Dot \o
    Digits(a[3], 10) \o Dot \o Digits(a[4], 10)

RECURSIVE ZeroRun(_, _)
ZeroRun(seg, i) ==
    IF i > Len(seg) \/ seg[i] # 0 THEN 0 ELSE 1 + ZeroRun(seg, i + 1)

RECURSIVE HexJoin(_)
HexJoin(seg) ==
    IF seg = <<>> THEN <<>>
    ELSE IF Len(seg) = 1 THEN Digits(seg[1], 16)
    ELSE Digits(seg[1], 16) \o Colon \o HexJoin(Tail(seg))

\* Ipv6Addr's Display: an IPv4-mapped address in mixed notation; otherwise
\* the first longest run of two or more zero segments is written "::".
Ipv6ToString(a) ==
    IF SubSeq(a, 1, 5) = <<0, 0, 0, 0, 0>> /\ a[6] = 65535
    THEN MappedPrefix \o
         Ipv4ToString(<<a[7] \div 256, a[7] % 256, a[8] \div 256, a[8] % 256>>)
    ELSE LET longest == CHOOSE n \in 0..8 :
                          /\ \E i \in 1..8 : ZeroRun(a, i) = n
                          /\ \A i \in 1..8 : ZeroRun(a, i) <= n
             start == CHOOSE i \in 1..8 :
                          /\ ZeroRun(a, i) = longest
                          /\ \A j \in 1..(i - 1) : ZeroRun(a, j) < longest
         IN  IF longest > 1
             THEN HexJoin(SubSeq(a, 1, start - 1)) \o Colon \o Colon \o
                  HexJoin(SubSeq(a, start + longest, 8))
             ELSE HexJoin(a)

RECURSIVE MapAddr(_, _)
MapAddr(blocks, v6) ==
    IF blocks = <<>> THEN <<>>
    ELSE <<Str(IF v6 THEN Ipv6ToString(Head(blocks).addr)
               ELSE Ipv4ToString(Head(blocks).addr))>>
         \o MapAddr(Tail(blocks), v6)

\* fs::read as it would be were its error dropped.
FsReadUnchecked(file) == [ok |-> TRUE, bytes |-> file.bytes, err |-> file.err]

\* fs::read
FsRead(file) == [ok |-> file.readable, bytes |-> file.bytes, err |-> file.err]

\* Roa::decode(bytes, false)
RoaDecode(bytes) == [ok |-> bytes.valid, content |-> bytes, err |-> bytes.err]

\* RPKITool::parse_roa_file, from the file found at the path.  calls lists
\* the collaborators it invoked, in order.
ParseRoaFile(file) ==
    LET roa_bytes == FsRead(file) IN
    IF ~roa_bytes.ok
    THEN [result |-> IntoMcpErrorIo(roa_bytes.err).result,
          events |-> IntoMcpErrorIo(roa_bytes.err).events,
          calls |-> <<"fs::read">>]
    ELSE LET roa == RoaDecode(roa_bytes.bytes) IN
         IF ~roa.ok
         THEN [result |-> IntoMcpErrorDecode(roa.err).result,
               events |-> IntoMcpErrorDecode(roa.err).events,
               calls |-> <<"fs::read", "Roa::decode">>]
         ELSE LET parsed == Obj([asn |-> Str(AsnToString(roa.content.as_id)),
                                 v4_prefix |-> Arr(MapAddr(roa.content.v4, FALSE)),
                                 v6_prefix |-> Arr(MapAddr(roa.content.v6, TRUE))])
                  json_value == ToJson(parsed)
              IN  IF ~json_value.ok
                  THEN [result |-> IntoMcpErrorSerde(json_value.err).result,
                        events |-> IntoMcpErrorSerde(json_value.err).events,
                        calls |-> <<"fs::read", "Roa::decode">>]
                  ELSE [result |-> Structured(json_value.v), events |-> <<>>,
                        calls |-> <<"fs::read", "Roa::decode">>]

(***************************************************************************)
(* Inputs of the model.                                                    *)
(***************************************************************************)
RECURSIVE SeqsUpTo(_, _)
SeqsUpTo(S, n) ==
    IF n = 0 THEN {<<>>}
    ELSE SeqsUpTo(S, n - 1) \cup
         {Append(q, c) : q \in {r \in SeqsUpTo(S, n - 1) : Len(r) = n - 1}, c \in S}

\* Heads of the endpoint strings tried: the two accepted schemes and near
\* misses of them (empty, blank with a tab, a form feed or a no-break space,
\* truncated, misspelt, upper case, shifted).
EndpointHeads ==
    {<<>>, Text(<<" ">>), <<9, 32>>, <<12, 160>>,
     HttpScheme, HttpsScheme,
     Text(<<"h", "t", "t", "p", ":", "/">>),
     Text(<<"h", "t", "t", "p", "s", ":", "/">>),
     Text(<<"h", "t", "t", "p", "s", "/", "/">>),
     Text(<<"h", "t", "p", ":", "/", "/">>),
     Text(<<"f", "t", "p", ":", "/", "/">>),
     Text(<<"H", "T", "T", "P", ":", "/", "/">>),
     Text(<<" ", "h", "t", "t", "p", ":", "/", "/">>)}

\* The characters a tail is made of.
TailChars == {Ord("a")}

Endpoints == {h \o q : h \in EndpointHeads, q \in SeqsUpTo(TailChars, MaxSuffixLen)}

Prog == Text(<<"r", "p", "k", "i", "-", "m", "c", "p">>)

\* env::args(): the program name, then what the user gave.
ArgLists == {<<Prog>>} \cup {<<Prog, e>> : e \in Endpoints}

Callers == {"c1", "c2"}
SoloCallers == {"c1"}

OddAsn == Text(<<"6", " ", "?", "/">>)
Asns == {Text(<<"A", "S", "6", "5", "0", "0", "0">>), OddAsn}
Prefixes == {Text(<<"1", "9", "2", ".", "0", ".", "2", ".", "0", "/", "2", "4">>)}
Paths == {Text(<<"a", ".", "r", "o", "a">>)}

\* Upstream bodies for /api/v1/status.  Bodies are listed in sequences: JSON
\* values of different kinds are never compared with each other.
SuccessBody ==
    [version |-> Str("routinator/0.14.0"), serial |-> Num(42),
     now |-> Str("2024-05-01T10:00:00Z"),
     lastUpdateStart |-> Str("2024-05-01T09:50:00Z"),
     lastUpdateDone |-> Str("2024-05-01T09:51:00Z"),
     lastUpdateDuration |-> Num(60)]
SuccessFields ==
    <<"version", "serial", "now", "lastUpdateStart", "lastUpdateDone",
      "lastUpdateDuration">>

Without(r, f) == [n \in (DOMAIN r) \ {f} |-> r[n]]
With(r, f, x) == [n \in (DOMAIN r) \cup {f} |-> IF n = f THEN x ELSE r[n]]

StatusBodies ==
    <<Obj(SuccessBody), Garbage, Arr(<<Str("initializing")>>), Obj([x |-> Num(1)]),
      Obj([error |-> Str("initial validation ongoing")]),
      Obj([error |-> Num(503)]),
      Obj(With(SuccessBody, "error", Str("stale"))),
      Obj(With(SuccessBody, "error", Num(0))),
      Obj(With(SuccessBody, "extra", Str("x"))),
      Obj(With(Without(SuccessBody, "now"), "error", Str("partial"))),
      Obj(With(SuccessBody, "serial", Num(0))),
      Obj(With(SuccessBody, "serial", Num(U16Max))),
      Obj(With(SuccessBody, "serial", Num(U16Max + 1))),
      Obj(With(SuccessBody, "serial", Num(-1))),
      Obj(With(SuccessBody, "serial", Str("42"))),
      Obj(With(SuccessBody, "lastUpdateDuration", Num(0))),
      Obj(With(SuccessBody, "lastUpdateDuration", Num(Pow2(F32Bits)))),
      Obj(With(SuccessBody, "lastUpdateDuration", Num(Pow2(F32Bits) + 1)))>>
    \o [i \in 1..Len(SuccessFields) |-> Obj(Without(SuccessBody, SuccessFields[i]))]
    \o [i \in 1..Len(SuccessFields) |-> Obj(With(SuccessBody, SuccessFields[i], Arr(<<>>)))]

\* Upstream bodies for /api/v1/validity/<asn>/<prefix>.
VrpBody == [asn |-> Str("AS65000"), prefix |-> Str("192.0.2.0/24"), max_length |-> Str("24")]
VRPsBody == [matched |-> Arr(<<Obj(VrpBody)>>), unmatched_as |-> Arr(<<>>),
             unmatched_length |-> Arr(<<>>)]
ValidityBody ==
    [validated_route |->
        Obj([route |-> Obj([origin_asn |-> Str("AS65000"), prefix |-> Str("192.0.2.0/24")]),
             validity |-> Obj([state |-> Str("valid"), description |-> Str("ok"),
                               VRPs |-> Obj(VRPsBody)])]),
     generatedTime |-> Str("2024-05-01T10:00:00Z")]

ValidityBodies ==
    <<Obj(ValidityBody), Garbage,
      Obj(Without(ValidityBody, "generatedTime")),
      Obj(With(ValidityBody, "generatedTime", Num(1))),
      Obj(With(ValidityBody, "extra", Num(1))),
      Arr(<<ValidityBody.validated_route, ValidityBody.generatedTime>>)>>

\* Upstream bodies for /json?select-asn=<asn>.
RoaBody == [asn |-> Str("AS65000"), prefix |-> Str("192.0.2.0/24"),
            maxLength |-> Num(24), ta |-> Str("ripe")]
RoasBody ==
    [metadata |-> Obj([generated |-> Num(1714557600),
                       generatedTime |-> Str("2024-05-01T10:00:00Z")]),
     roas |-> Arr(<<Obj(RoaBody), Obj(With(RoaBody, "maxLength", Num(25)))>>)]

RoasBodies ==
    <<Obj(RoasBody), Garbage,
      Obj(With(RoasBody, "roas", Arr(<<>>))),
      Obj(Without(RoasBody, "metadata")),
      Obj(With(RoasBody, "roas", Arr(<<Obj(With(RoaBody, "maxLength", Str("24")))>>))),
      Obj(With(RoasBody, "extra", Num(1)))>>

Bodies(name) ==
    CASE name = "status" -> StatusBodies
      [] name = "validity" -> ValidityBodies
      [] name = "roas" -> RoasBodies

\* What reqwest::get may come back with: failures of the transport and of the
\* upstream, and a well-formed and a malformed answer.
CommonOutcomes(name) ==
    <<TransportFailure,
      Response(404, TRUE, "not found", Garbage),
      Response(500, FALSE, "", Garbage),
      Response(200, TRUE, "<json>", Bodies(name)[1]),
      Response(200, TRUE, "<html>", Garbage)>>

\* The same, with every body of the tool and the rarer answers.
Outcomes(name) ==
    CommonOutcomes(name)
    \o [i \in 1..Len(Bodies(name)) |-> Response(200, TRUE, "<json>", Bodies(name)[i])]
    \o <<Response(200, FALSE, "", Garbage),
         Response(204, TRUE, "", Garbage),
         Response(299, TRUE, "<json>", Bodies(name)[1]),
         Response(301, TRUE, "", Garbage),
         Response(300, TRUE, "<json>", Bodies(name)[1]),
         Response(503, TRUE, "<json>", Bodies(name)[1])>>

\* What may be found at a path.  A file that cannot be read carries the
\* io::Error of the read, bytes that are no ROA the DecodeError of the decoder.
NotFound ==
    LibError("No such file or directory (os error 2)",
             "Os { code: 2, kind: NotFound, message: \"No such file or directory\" }")
Malformed ==
    LibError("unexpected end of data", "DecodeError(\"unexpected end of data\")")
NoBytes == [valid |-> FALSE, as_id |-> 0, v4 |-> <<>>, v6 |-> <<>>, err |-> Malformed]
Block(addr, len, max) == [addr |-> addr, len |-> len, max |-> max]
Files ==
    <<[readable |-> FALSE, bytes |-> NoBytes, err |-> NotFound],
     [readable |-> TRUE, bytes |-> NoBytes, err |-> NoError],
     [readable |-> TRUE,
      bytes |-> [valid |-> TRUE, as_id |-> 65000,
                 v4 |-> <<Block(<<192, 0, 2, 0>>, 24, 24)>>, v6 |-> <<>>,
                 err |-> NoError],
      err |-> NoError],
     [readable |-> TRUE,
      bytes |-> [valid |-> TRUE, as_id |-> 64496,
                 v4 |-> <<Block(<<198, 51, 100, 0>>, 24, 28), Block(<<10, 0, 0, 0>>, 8, 8)>>,
                 v6 |-> <<Block(<<8193, 3512, 0, 0, 0, 0, 0, 0>>, 32, 48)>>,
                 err |-> NoError],
      err |-> NoError]>>

\* The T each tool passes to fetch_json_response::<T>.
TypeOf(name) ==
    CASE name = "status" -> StatusResponse
      [] name = "validity" -> ValidityResponse
      [] name = "roas" -> FetchedRoas

(***************************************************************************)
(* State.                                                                  *)
(***************************************************************************)
VARIABLES
    pc,         \* where main is
    exit,       \* how main returned: "none", "ok" or the AppError variant
    args,       \* env::args()
    logOpen,    \* logs/rpki_mcp.log is open and the subscriber installed
    logged,     \* error events the latest step handed to the subscriber
    written,    \* how many of them the subscriber appended to the log file
    tool,       \* the RPKITool: [built, endpoint]
    workers,    \* worker threads of the async runtime
    task,       \* per caller, its latest tool call: in flight, or returned
    netUsed     \* a GET has been issued since the process started

vars == <<pc, exit, args, logOpen, logged, written, tool, workers, task, netUsed>>

NoFile == [readable |-> FALSE, bytes |-> NoBytes, err |-> NoError]

\* A call: phase is "idle" (none made yet), "queued" (dispatched as a task of
\* the runtime and not polled yet), "awaiting" (suspended in the get()), "body" (the response has come and the call is suspended in the read
\* of its body), "reading" (inside fs::read) or "done" (run to its end).  gets
\* are the URLs requested; res or file is what the call met; result, events
\* and calls are what it returned, logged and invoked.
Call(phase, name, a, gets) ==
    [phase |-> phase, tool |-> name, args |-> a, gets |-> gets,
     res |-> TransportFailure, file |-> NoFile,
     result |-> McpError(0, ""), events |-> <<>>, calls |-> <<>>]

Idle == Call("idle", "none", <<>>, <<>>)

Init ==
    /\ pc = "create_dir"
    /\ exit = "none"
    /\ args \in ArgLists
    /\ logOpen = FALSE
    /\ logged = 0
    /\ written = 0
    /\ tool = [built |-> FALSE, endpoint |-> <<>>]
    /\ workers \in 1..MaxWorkers
    /\ task = [c \in Callers |-> Idle]
    /\ netUsed = FALSE

\* tracing::error!, n times: the events go to the subscriber, which appends
\* each to the log file when the write succeeds and drops it otherwise.
LogError(n) ==
    /\ logged' = n
    /\ \E k \in 0..n : written' = k

NoLog == LogError(0)

Abort(err) == pc' = "aborted" /\ exit' = err

(***************************************************************************)
(* main.                                                                   *)
(***************************************************************************)
\* fs::create_dir_all("logs")?
CreateLogDir ==
    /\ pc = "create_dir"
    /\ \E ok \in BOOLEAN :
         IF ok THEN pc' = "open_log" /\ exit' = exit ELSE Abort("IO")
    /\ NoLog
    /\ UNCHANGED <<args, logOpen, tool, workers, task, netUsed>>

\* OpenLogFile as it would be were the error of open() not propagated.
OpenLogFileUnchecked ==
    /\ pc = "open_log"
    /\ \E ok \in BOOLEAN : pc' = "read_args" /\ exit' = exit /\ logOpen' = ok
    /\ NoLog
    /\ UNCHANGED <<args, tool, workers, task, netUsed>>

\* OpenOptions::new().create(true).append(true).open(..)? and the
\* installation of the subscriber that writes to the file
OpenLogFile ==
    /\ pc = "open_log"
    /\ \E ok \in BOOLEAN :
         IF ok THEN pc' = "read_args" /\ exit' = exit /\ logOpen' = TRUE
         ELSE Abort("IO") /\ logOpen' = logOpen
    /\ NoLog
    /\ UNCHANGED <<args, tool, workers, task, netUsed>>

\* env::args().collect() and the check that an endpoint was given
ReadArgs ==
    /\ pc = "read_args"
    /\ IF Len(args) = 1
       THEN Abort("Input") /\ LogError(1)
       ELSE pc' = "new" /\ exit' = exit /\ NoLog
    /\ UNCHANGED <<args, logOpen, tool, workers, task, netUsed>>

\* RPKITool::new(endpoint)?
Construct ==
    /\ pc = "new"
    /\ LET r == New(args[2]) IN
         IF r.ok
         THEN pc' = "serve" /\ exit' = exit
              /\ tool' = [built |-> TRUE, endpoint |-> r.endpoint]
         ELSE Abort("Input") /\ tool' = tool
    /\ NoLog
    /\ UNCHANGED <<args, logOpen, workers, task, netUsed>>

\* .serve(stdio()).await.inspect_err(..)?
Serve ==
    /\ pc = "serve"
    /\ \E ok \in BOOLEAN :
         IF ok THEN pc' = "serving" /\ exit' = exit /\ NoLog
         ELSE Abort("Server") /\ LogError(1)
    /\ UNCHANGED <<args, logOpen, tool, workers, task, netUsed>>

\* service.waiting().await?; Ok(()): the peer closed the transport, or the
\* service task failed, and main's body returns.  The runtime then shuts
\* down, and a call in flight is not stopped at once: a task inside the
\* blocking fs::read runs on to its end, and a task not polled yet or woken
\* already may still be polled by a worker that has not noticed the shutdown.
\* A task that is not polled again is dropped where it is.
Waiting ==
    /\ pc = "serving"
    /\ \E e \in {"ok", "Task"} : pc' = "exited" /\ exit' = e
    /\ NoLog
    /\ UNCHANGED <<args, logOpen, tool, workers, task, netUsed>>

(***************************************************************************)
(* Tool calls.  Each call runs as a task of the runtime; a task needs a    *)
(* worker thread to be polled, and a task inside the blocking fs::read     *)
(* keeps its worker until the read returns.                                *)
(***************************************************************************)
Busy == Cardinality({c \in Callers : task[c].phase = "reading"})
CanPoll == Busy < workers

\* The tools and the arguments they may be called with.
ToolCalls ==
    {<<"status", <<>>>>}
    \cup {<<"validity", <<asn, prefix>>>> : asn \in Asns, prefix \in Prefixes}
    \cup {<<"roas", <<asn>>>> : asn \in Asns}
    \cup {<<"parse_roa_file", <<path>>>> : path \in Paths}

\* The service takes a request of the peer and dispatches the tool it names
\* as a task of its own.
call_tool(c) ==
    /\ pc = "serving"
    /\ task[c].phase \in {"idle", "done"}
    /\ CanPoll
    /\ \E t \in ToolCalls : task' = [task EXCEPT ![c] = Call("queued", t[1], t[2], <<>>)]
    /\ NoLog
    /\ UNCHANGED <<pc, exit, args, logOpen, tool, workers, netUsed>>

\* The first poll of a dispatched call: by a free worker, while main waits or
\* after its body returned and before the worker notices the shutdown.
CanCall(c) ==
    /\ pc \in {"serving", "exited"}
    /\ task[c].phase = "queued"
    /\ CanPoll

\* fetch_json_response up to the await of its get()
Get(c, name, a, url) ==
    /\ task' = [task EXCEPT ![c] = Call("awaiting", name, a, <<url>>)]
    /\ netUsed' = TRUE
    /\ NoLog
    /\ UNCHANGED <<pc, exit, args, logOpen, tool, workers>>

status(c) ==
    /\ CanCall(c)
    /\ task[c].tool = "status"
    /\ Get(c, "status", <<>>, StatusUrl(tool.endpoint))

validity(c) ==
    /\ CanCall(c)
    /\ task[c].tool = "validity"
    /\ LET asn == task[c].args[1]
           prefix == task[c].args[2]
       IN  Get(c, "validity", <<asn, prefix>>, ValidityUrl(tool.endpoint, asn, prefix))

roas(c) ==
    /\ CanCall(c)
    /\ task[c].tool = "roas"
    /\ LET asn == task[c].args[1]
       IN  Get(c, "roas", <<asn>>, RoasUrl(tool.endpoint, asn))

\* The call returns to its caller, its error events logged on the way.
Return(c, res, file, out) ==
    /\ task' = [task EXCEPT ![c] =
                  [phase |-> "done", tool |-> task[c].tool, args |-> task[c].args,
                   gets |-> task[c].gets, res |-> res, file |-> file,
                   result |-> out.result, events |-> out.events,
                   calls |-> out.calls]]
    /\ LogError(Len(out.events))
    /\ UNCHANGED <<pc, exit, args, logOpen, tool, workers, netUsed>>

AnswersFor(name, every) == IF every THEN Outcomes(name) ELSE CommonOutcomes(name)

\* The response as it is when get() completes: the status is known, the body
\* is still to be read.
ResponseHead(res) ==
    IF res.transport THEN res ELSE Response(res.status, FALSE, "", Garbage)

\* fetch_json_response from the completion of its get(): a transport failure
\* is returned at once; with a response the call goes on to read the body
\* (text() or json()) and is suspended there.  A call woken before main's
\* body returned may take the step during the shutdown.
fetch_json_response(c, every) ==
    /\ pc \in {"serving", "exited"}
    /\ task[c].phase = "awaiting"
    /\ CanPoll
    /\ \E i \in 1..Len(AnswersFor(task[c].tool, every)) :
         LET res == AnswersFor(task[c].tool, every)[i]
             out == FetchJsonResponse(TypeOf(task[c].tool), res)
         IN  IF res.transport
             THEN Return(c, res, NoFile,
                         [result |-> out.result, events |-> out.events,
                          calls |-> <<>>])
             ELSE /\ task' = [task EXCEPT ![c].phase = "body", ![c].res = ResponseHead(res)]
                  /\ NoLog
                  /\ UNCHANGED <<pc, exit, args, logOpen, tool, workers, netUsed>>

\* fetch_json_response from the completion of the read of the body to its
\* return, during the shutdown too
fetch_json_response_body(c, every) ==
    /\ pc \in {"serving", "exited"}
    /\ task[c].phase = "body"
    /\ CanPoll
    /\ \E i \in 1..Len(AnswersFor(task[c].tool, every)) :
         LET res == AnswersFor(task[c].tool, every)[i]
             out == FetchJsonResponse(TypeOf(task[c].tool), res)
         IN  /\ ResponseHead(res) = task[c].res
             /\ Return(c, res, NoFile,
                       [result |-> out.result, events |-> out.events,
                        calls |-> <<>>])

\* parse_roa_file up to its entry into fs::read
parse_roa_file_read(c) ==
    /\ CanCall(c)
    /\ task[c].tool = "parse_roa_file"
    /\ task' = [task EXCEPT ![c] = Call("reading", "parse_roa_file", task[c].args, <<>>)]
    /\ NoLog
    /\ UNCHANGED <<pc, exit, args, logOpen, tool, workers, netUsed>>

\* parse_roa_file from the return of fs::read to its own return; the task is
\* not dropped when main's body has returned meanwhile
parse_roa_file(c) ==
    /\ pc \in {"serving", "exited"}
    /\ task[c].phase = "reading"
    /\ \E i \in 1..Len(Files) :
         Return(c, TransportFailure, Files[i], ParseRoaFile(Files[i]))

Main ==
    \/ CreateLogDir
    \/ OpenLogFile
    \/ ReadArgs
    \/ Construct
    \/ Serve
    \/ Waiting

Tools(C, every) ==
    \/ \E c \in C : call_tool(c)
    \/ \E c \in C : status(c)
    \/ \E c \in C : validity(c)
    \/ \E c \in C : roas(c)
    \/ \E c \in C : fetch_json_response(c, every)
    \/ \E c \in C : fetch_json_response_body(c, every)
    \/ \E c \in C : parse_roa_file_read(c)
    \/ \E c \in C : parse_roa_file(c)

\* Two callers, whose calls interleave freely; the upstream gives one of its
\* common answers.
Next == Main \/ Tools(Callers, FALSE)

Spec == Init /\ [][Next]_vars

\* One caller; the upstream gives any of its answers.
SoloNext == Main \/ Tools(SoloCallers, TRUE)

SoloSpec == Init /\ [][SoloNext]_vars

(***************************************************************************)
(* Properties.                                                             *)
(***************************************************************************)
NetTools == {"status", "validity", "roas"}
Done(c) == task[c].phase = "done"
NetDone(c) == Done(c) /\ task[c].tool \in NetTools
Answered(c) == NetDone(c) /\ ~task[c].res.transport
TwoHundreds(st) == st \in 200..299

\* The text begins with the given scheme, character by character.
Begins(e, scheme) ==
    /\ Len(e) >= Len(scheme)
    /\ \A i \in 1..Len(scheme) : e[i] = scheme[i]
\* Nothing in the text but white space: blanks, tabs, line ends, form feeds
\* and the spaces beyond ASCII.
Blank(e) == \A i \in 1..Len(e) : e[i] \in WhiteSpace
Rejected(e) == e = <<>> \/ Blank(e) \/ ~(Begins(e, HttpScheme) \/ Begins(e, HttpsScheme))

\* main has been through RPKITool::new
Constructed ==
    \/ pc \in {"serve", "serving", "exited"}
    \/ pc = "aborted" /\ exit = "Server"
    \/ pc = "aborted" /\ exit = "Input" /\ Len(args) > 1

\* C1: RPKITool::new fails with an input error for every endpoint that is
\* empty, blank or does not begin with http:// or https://, and succeeds for
\* every other; on success the endpoint kept is the string given, unchanged,
\* and no request has been issued.
EndpointValidated ==
    Constructed =>
        IF Rejected(args[2])
        THEN pc = "aborted" /\ exit = "Input" /\ ~tool.built /\ ~netUsed
        ELSE /\ ~(pc = "aborted" /\ exit = "Input")
             /\ tool.built
             /\ tool.endpoint = args[2]
             /\ (pc = "serve" => ~netUsed)

\* An https endpoint with a tail has been accepted and the server is about
\* to be started.
EndpointAccepted ==
    /\ pc = "serve"
    /\ tool.built
    /\ tool.endpoint = Text(<<"h", "t", "t", "p", "s", ":", "/", "/", "a">>)

\* C2: a non-2xx answer makes status, validity and roas return the typed
\* error whose code is the HTTP status and whose message is the body text, or
\* "Unknown error" when the body cannot be read; never a success payload.
UpstreamErrorTyped ==
    \A c \in Callers :
        (Answered(c) /\ ~TwoHundreds(task[c].res.status)) =>
            /\ task[c].result.t = "err"
            /\ task[c].result.code = task[c].res.status
            /\ task[c].result.message =
                 (IF task[c].res.readable THEN task[c].res.text ELSE "Unknown error")
            /\ task[c].result.payload.k = "garbage"

\* validity met a 404 with body "not found" and returned code 404 with that
\* message.
NotFoundReturned ==
    \E c \in Callers :
        /\ Answered(c)
        /\ task[c].tool = "validity"
        /\ task[c].res.status = 404
        /\ task[c].res.text = "not found"
        /\ task[c].result = McpError(404, "not found")

\* The upstream's two shapes of a status body, as JSON objects.
HasString(v, f) == f \in DOMAIN v.v /\ v.v[f].k = "str"
HasNumber(v, f) == f \in DOMAIN v.v /\ v.v[f].k = "num"
ErrorShaped(v) == v.k = "obj" /\ HasString(v, "error")
SuccessShaped(v) ==
    /\ v.k = "obj"
    /\ \A f \in {"version", "now", "lastUpdateStart", "lastUpdateDone"} : HasString(v, f)
    /\ HasNumber(v, "serial")
    /\ HasNumber(v, "lastUpdateDuration")

\* status got a 2xx answer whose body could be read
StatusRead(c) ==
    /\ Answered(c)
    /\ task[c].tool = "status"
    /\ TwoHundreds(task[c].res.status)
    /\ task[c].res.readable

IsErrorResult(r) == r.t = "ok" /\ DOMAIN r.payload.v = {"error"}
IsSuccessResult(r) ==
    /\ r.t = "ok"
    /\ DOMAIN r.payload.v = {SuccessFields[i] : i \in 1..Len(SuccessFields)}

\* C3, as claimed: the Success shape is tried first, so a body that satisfies
\* it, also one that carries an `error` field besides, is returned as Success;
\* a body of neither shape is a decode failure.
SuccessShapeFirst ==
    \A c \in Callers :
        StatusRead(c) =>
            IF SuccessShaped(task[c].res.json) THEN IsSuccessResult(task[c].result)
            ELSE IF ErrorShaped(task[c].res.json) THEN IsErrorResult(task[c].result)
            ELSE task[c].result.t = "err"

\* C4, as claimed: every typed error of status, validity and roas carries the
\* HTTP status as its code whenever a status was received, a decode failure
\* of a 2xx body included, and -1 only when none was.
ErrorCodeIsStatus ==
    \A c \in Callers :
        (NetDone(c) /\ task[c].result.t = "err") =>
            task[c].result.code =
                (IF task[c].res.transport THEN NoStatus ELSE task[c].res.status)

\* A status body as the upstream sends it on success: the six fields and
\* nothing else, serial a counter, the duration a number.
SuccessSent(v) ==
    /\ v.k = "obj"
    /\ DOMAIN v.v = {SuccessFields[i] : i \in 1..Len(SuccessFields)}
    /\ \A f \in {"version", "now", "lastUpdateStart", "lastUpdateDone"} : HasString(v, f)
    /\ HasNumber(v, "serial") /\ v.v["serial"].v >= 0
    /\ HasNumber(v, "lastUpdateDuration") /\ v.v["lastUpdateDuration"].v >= 0

\* C5, as claimed: a 2xx status body of the Success shape is returned as a
\* structured payload whose six fields each equal the upstream value, whatever
\* that value is (a serial of 65536 or more included).
SuccessCopiedVerbatim ==
    \A c \in Callers :
        (StatusRead(c) /\ SuccessSent(task[c].res.json)) =>
            /\ IsSuccessResult(task[c].result)
            /\ \A i \in 1..Len(SuccessFields) :
                 LET sent == task[c].res.json.v[SuccessFields[i]]
                     got == task[c].result.payload.v[SuccessFields[i]]
                 IN  got.k = sent.k /\ got.v = sent.v

ParseDone(c) == Done(c) /\ task[c].tool = "parse_roa_file"

\* C6: parse_roa_file has three outcomes and no partial one.  An unreadable
\* path gives the I/O error and the decoder is not invoked; readable bytes
\* that are no ROA give the decode error and no payload; a read followed by
\* a decode gives the ParsedRoa payload, one rendered address per block.  The
\* return of the call, with either error or with the payload, leaves main
\* where it is and the other caller's call as it is.
ParseRoaFileOutcomes ==
    /\ [](\A c \in Callers :
            ParseDone(c) =>
                LET f == task[c].file
                    r == task[c].result
                IN  /\ ~f.readable =>
                         /\ r.t = "err" /\ r.code = NoStatus
                         /\ r.message = "Failed to read file: " \o f.err.display
                         /\ r.payload.k = "garbage"
                         /\ task[c].calls = <<"fs::read">>
                    /\ (f.readable /\ ~f.bytes.valid) =>
                         /\ r.t = "err" /\ r.code = NoStatus
                         /\ r.message = "Failed to decode file: " \o f.bytes.err.display
                         /\ r.payload.k = "garbage"
                         /\ task[c].calls = <<"fs::read", "Roa::decode">>
                    /\ (f.readable /\ f.bytes.valid) =>
                         /\ r.t = "ok"
                         /\ task[c].calls = <<"fs::read", "Roa::decode">>
                         /\ DOMAIN r.payload.v = {"asn", "v4_prefix", "v6_prefix"}
                         /\ Len(r.payload.v["v4_prefix"].v) = Len(f.bytes.v4)
                         /\ Len(r.payload.v["v6_prefix"].v) = Len(f.bytes.v6))
    /\ [][\A c \in Callers :
            (task[c].phase = "reading" /\ task'[c].phase = "done") =>
                /\ pc' = pc /\ exit' = exit
                /\ \A d \in Callers \ {c} : task'[d] = task[d]]_vars

\* One caller got the I/O error for an unreadable path and the process went
\* on to hand the other a parsed ROA.
ParseFailedThenParsed ==
    \E c, d \in Callers :
        /\ pc = "serving"
        /\ ParseDone(c) /\ ~task[c].file.readable
        /\ task[c].result.message =
             "Failed to read file: No such file or directory (os error 2)"
        /\ ParseDone(d) /\ task[d].result.t = "ok"

\* C7, as claimed: a pending file read does not stall a network call in
\* flight beside it (the runtime can still poll the network call), and what
\* a call returns is decided by its own arguments and its own answer.
ReadDoesNotStall ==
    \A c, d \in Callers :
        /\ (task[c].phase \in {"queued", "awaiting", "body"} /\ task[d].phase = "reading")
             => CanPoll
        /\ NetDone(c) =>
             task[c].result = FetchJsonResponse(TypeOf(task[c].tool), task[c].res).result

\* The error events a failure of a call may be logged as: the kind of the
\* failure, then its detail.
EventsOf(c) ==
    IF task[c].tool = "parse_roa_file"
    THEN (IF ~task[c].file.readable
          THEN {"Failed to read file: " \o task[c].file.err.debug}
          ELSE {"Failed to decode file: " \o task[c].file.bytes.err.debug})
    ELSE IF task[c].res.transport
    THEN {"Request failed: reqwest::Error { kind: Request }"}
    ELSE IF ~TwoHundreds(task[c].res.status)
    THEN {"HTTP error " \o ToString(task[c].res.status) \o ": " \o task[c].result.message}
    ELSE {"Request failed: reqwest::Error { kind: Body }",
          "Request failed: reqwest::Error { kind: Decode }"}

\* A call of caller c returns in this step.
Returns(c) ==
    task[c].phase \in {"awaiting", "body", "reading"} /\ task'[c].phase = "done"

\* C8: a call that returns a typed error has logged exactly one error event,
\* the one of its failure, in the step that returns it, and returns the error
\* whether or not the subscriber managed to write the event; a call that
\* returns a payload has logged none.
ErrorLoggedOnce ==
    /\ [](\A c \in Callers :
            Done(c) =>
                IF task[c].result.t = "err"
                THEN Len(task[c].events) = 1 /\ task[c].events[1] \in EventsOf(c)
                ELSE task[c].events = <<>>)
    /\ [][\A c \in Callers :
            Returns(c) =>
                /\ logged' = Len(task'[c].events)
                /\ logged' = (IF task'[c].result.t = "err" THEN 1 ELSE 0)
                /\ written' \in 0..logged']_vars

\* A call returned its typed error in a step whose log write failed.
ErrorReturnedUnwritten ==
    \E c \in Callers :
        /\ Done(c)
        /\ task[c].result.t = "err"
        /\ logged = 1
        /\ written = 0

\* main has examined the endpoint argument
ArgsExamined ==
    \/ pc \in {"new", "serve", "serving", "exited"}
    \/ pc = "aborted" /\ exit \in {"Input", "Server"}

\* C9: the log file is opened before the endpoint argument is examined; the
\* tools are served only once the log is open and the endpoint validated; a
\* failure to open the log, a missing endpoint and a rejected endpoint abort
\* main before any call has run; the error of a call never ends the process.
StartupFailFast ==
    /\ [](/\ ArgsExamined => logOpen
          /\ pc = "serving" =>
               /\ logOpen /\ tool.built /\ Len(args) > 1
               /\ ~Rejected(tool.endpoint)
          /\ (\E c \in Callers : task[c].phase # "idle") => pc \in {"serving", "exited"}
          /\ pc = "aborted" =>
               /\ exit \in {"IO", "Input", "Server"}
               /\ \A c \in Callers : task[c] = Idle
               /\ ~netUsed
          /\ (Len(args) = 1 \/ Rejected(args[2])) =>
               pc \in {"create_dir", "open_log", "read_args", "new", "aborted"}
          /\ (~logOpen) => pc \in {"create_dir", "open_log", "aborted"})
    /\ [][\A c \in Callers :
            (Returns(c) /\ task'[c].result.t = "err") =>
                pc \in {"serving", "exited"} /\ pc' = pc /\ exit' = exit]_vars

\* The process is serving after a call returned an error.
ServingAfterError ==
    /\ pc = "serving"
    /\ logOpen
    /\ \E c \in Callers : Done(c) /\ task[c].result.t = "err"

\* The fixed path templates of the three upstream resources.
StatusTemplate ==
    <<47, 97, 112, 105, 47, 118, 49, 47, 115, 116, 97, 116, 117, 115>>
ValidityTemplate ==
    <<47, 97, 112, 105, 47, 118, 49, 47, 118, 97, 108, 105, 100, 105, 116, 121, 47>>
RoasTemplate ==
    <<47, 106, 115, 111, 110, 63, 115, 101, 108, 101, 99, 116, 45, 97, 115, 110, 61>>

\* The URL a call is to request: the endpoint given on the command line, the
\* fixed path of the tool, the arguments as given.
UrlOf(c) ==
    CASE task[c].tool = "status" -> args[2] \o StatusTemplate
      [] task[c].tool = "validity" ->
            args[2] \o ValidityTemplate \o task[c].args[1] \o <<Ord("/")>>
            \o task[c].args[2]
      [] task[c].tool = "roas" -> args[2] \o RoasTemplate \o task[c].args[1]

\* C10: a call of status, validity or roas issues exactly one GET, to the URL
\* composed of the endpoint, the tool's path and the arguments as given, and
\* returns once: no further request follows a transport failure, a non-2xx
\* status or a decode failure.
OneRequestPerCall ==
    /\ [](\A c \in Callers :
            /\ (task[c].tool \in NetTools /\ task[c].phase # "queued")
                 => task[c].gets = <<UrlOf(c)>>
            /\ (task[c].tool \notin NetTools \/ task[c].phase = "queued")
                 => task[c].gets = <<>>)
    /\ [][\A c \in Callers :
            (task[c].phase = "queued" /\ task'[c].phase = "awaiting") =>
                /\ task'[c].tool = task[c].tool
                /\ task'[c].args = task[c].args]_vars
    /\ [][\A c \in Callers :
            task[c].phase \in {"awaiting", "body"} =>
                \/ task'[c] = task[c]
                \/ /\ task[c].phase = "awaiting"
                   /\ task'[c].phase = "body"
                   /\ task'[c].gets = task[c].gets
                \/ task'[c].phase = "done" /\ task'[c].gets = task[c].gets]_vars

\* validity, asked about an ASN that a URL would need escaped, failed after
\* its single request.
FailedAfterOneRequest ==
    \E c \in Callers :
        /\ Done(c)
        /\ task[c].tool = "validity"
        /\ task[c].args[1] = <<54, 32, 63, 47>>
        /\ task[c].result.t = "err"
        /\ Len(task[c].gets) = 1

=============================================================================
